---- MODULE Spec2Model ----
(***************************************************************************)
(* A model of the stimpl interpreter (src/stimpl/runtime.py): the          *)
(* persistent environment `State` and the recursive function `evaluate`,   *)
(* unfolded into a machine with an explicit stack of activations, and the  *)
(* driver `run_stimpl`.                                                    *)
(*                                                                         *)
(* Host (Python) values are records [py |-> kind, rep |-> <<integers>>]:   *)
(*   int   n      [py |-> "int",   rep |-> <<n>>]                          *)
(*   bool  b      [py |-> "bool",  rep |-> <<1>>] or <<0>> (bool is an int)*)
(*   str   s      [py |-> "str",   rep |-> the character codes of s]       *)
(*   float n/d    [py |-> "float", rep |-> <<n, d>>], a reduced fraction   *)
(*   None         [py |-> "NoneType", rep |-> <<>>]                        *)
(* Floating point arithmetic is modelled as exact rational arithmetic.     *)
(***************************************************************************)
EXTENDS Integers, Sequences, FiniteSets, TLC

\* ------------------------------------------------------------------ bounds

\* Integer literals of the generated programs range over 0..MaxLit.
MaxLit == 1
\* Every run is cut after MaxSteps steps of the machine (loops need not end).
MaxSteps == 75
\* The programs that only assign and read have at most MaxSeq elements.
MaxSeq == 3
\* The counting loops count up to at most MaxLoop.
MaxLoop == 3

\* ------------------------------------------------------------- host values

NoneVal == [py |-> "NoneType", rep |-> <<>>]
IntVal(n) == [py |-> "int", rep |-> <<n>>]
BoolVal(b) == [py |-> "bool", rep |-> <<IF b THEN 1 ELSE 0>>]
StrVal(s) == [py |-> "str", rep |-> s]

Abs(n) == IF n < 0 THEN -n ELSE n

RECURSIVE GCD(_, _)
GCD(a, b) == IF b = 0 THEN a ELSE GCD(b, a % b)

\* The float n/d, d # 0, as a reduced fraction with a positive denominator.
FloatVal(n, d) ==
    LET g == GCD(Abs(n), Abs(d))
        s == IF d < 0 THEN -1 ELSE 1
    IN  [py |-> "float", rep |-> <<(s * n) \div g, Abs(d) \div g>>]

\* Python truth of a bool (or int) value.
Truthy(v) == v.rep[1] # 0

\* Python's left // right on ints: the floor of the quotient.
FloorDiv(a, b) == IF b > 0 THEN a \div b ELSE (-a) \div (-b)

\* Lexicographic order of two strings (sequences of character codes).
RECURSIVE StrLess(_, _)
StrLess(s, t) ==
    IF t = <<>> THEN FALSE
    ELSE IF s = <<>> THEN TRUE
    ELSE IF Head(s) # Head(t) THEN Head(s) < Head(t)
    ELSE StrLess(Tail(s), Tail(t))

\* left < right on two host values of the same kind.
PyLess(a, b) ==
    CASE a.py = "str" -> StrLess(a.rep, b.rep)
      [] a.py = "float" -> a.rep[1] * b.rep[2] < b.rep[1] * a.rep[2]
      [] OTHER -> a.rep[1] < b.rep[1]

\* left == right on two host values of the same kind.
PyEqual(a, b) == a.rep = b.rep

\* value == 0 on any host value: numbers (bools included) compare by value,
\* everything else differs from 0.
PyEqualsZero(v) == v.py \in {"int", "bool", "float"} /\ v.rep[1] = 0

PyAdd(a, b) ==
    CASE a.py = "str" -> StrVal(a.rep \o b.rep)
      [] a.py = "float" ->
            FloatVal(a.rep[1] * b.rep[2] + b.rep[1] * a.rep[2], a.rep[2] * b.rep[2])
      [] OTHER -> IntVal(a.rep[1] + b.rep[1])

PySub(a, b) ==
    IF a.py = "float"
    THEN FloatVal(a.rep[1] * b.rep[2] - b.rep[1] * a.rep[2], a.rep[2] * b.rep[2])
    ELSE IntVal(a.rep[1] - b.rep[1])

PyMul(a, b) ==
    IF a.py = "float"
    THEN FloatVal(a.rep[1] * b.rep[1], a.rep[2] * b.rep[2])
    ELSE IntVal(a.rep[1] * b.rep[1])

\* left // right, right # 0.
PyFloorDiv(a, b) == IntVal(FloorDiv(a.rep[1], b.rep[1]))

\* left / right on floats, right # 0.
PyTrueDiv(a, b) == FloatVal(a.rep[1] * b.rep[2], a.rep[2] * b.rep[1])

\* ------------------------------------------------------------ runtime types

Types == {"Unit", "Integer", "FloatingPoint", "String", "Boolean"}

\* ----------------------------------------------------------------- State

EmptyState == <<>>

\* The pair get_value returns: State.value, or None when the name is unbound.
Pair(v, t) == [val |-> v, type |-> t]
None == Pair(NoneVal, "None")

\* A set_value that replaces the name's older bindings instead of shadowing them.
set_value_Replacing(state, variable_name, variable_value, variable_type) ==
    <<[variable_name |-> variable_name,
       value |-> Pair(variable_value, variable_type)]>>
        \o SelectSeq(state, LAMBDA b : b.variable_name # variable_name)

\* State.set_value: a new head node whose next_state is the receiver.
set_value(state, variable_name, variable_value, variable_type) ==
    <<[variable_name |-> variable_name,
       value |-> Pair(variable_value, variable_type)]>> \o state

\* A get_value that prefers the oldest node with this name.
RECURSIVE get_value_Oldest(_, _)
get_value_Oldest(state, variable_name) ==
    IF state = EmptyState THEN [val |-> NoneVal, type |-> "None"]
    ELSE LET older == get_value_Oldest(Tail(state), variable_name)
         IN  IF older.type # "None" THEN older
             ELSE IF Head(state).variable_name = variable_name THEN Head(state).value
             ELSE older

\* State.get_value: the first node from the head with this name.
RECURSIVE get_value(_, _)
get_value(state, variable_name) ==
    IF state = EmptyState THEN None
    ELSE IF Head(state).variable_name = variable_name THEN Head(state).value
    ELSE get_value(Tail(state), variable_name)

\* ------------------------------------------------------------ expressions
\* The nodes of stimpl.expression, by the fields evaluate's patterns bind.

Ren == [kind |-> "Ren"]
IntLiteral(l) == [kind |-> "IntLiteral", literal |-> IntVal(l)]
FloatingPointLiteral(n, d) == [kind |-> "FloatingPointLiteral", literal |-> FloatVal(n, d)]
StringLiteral(l) == [kind |-> "StringLiteral", literal |-> StrVal(l)]
BooleanLiteral(l) == [kind |-> "BooleanLiteral", literal |-> BoolVal(l)]
PrintExpr(e) == [kind |-> "Print", to_print |-> e]
Sequence(exprs) == [kind |-> "Sequence", exprs |-> exprs]
Program(exprs) == [kind |-> "Program", exprs |-> exprs]
Variable(n) == [kind |-> "Variable", variable_name |-> n]
Assign(n, e) == [kind |-> "Assign", variable |-> Variable(n), value |-> e]
Binary(k, l, r) == [kind |-> k, left |-> l, right |-> r]
Add(l, r) == Binary("Add", l, r)
Divide(l, r) == Binary("Divide", l, r)
And(l, r) == Binary("And", l, r)
Or(l, r) == Binary("Or", l, r)
Lt(l, r) == Binary("Lt", l, r)
Not(e) == [kind |-> "Not", expr |-> e]
If(c, t, f) == [kind |-> "If", condition |-> c, true |-> t, false |-> f]
While(c, b) == [kind |-> "While", condition |-> c, body |-> b]
\* An Expr that none of evaluate's patterns matches.
Other == [kind |-> "Expr"]

ArithmeticKinds == {"Add", "Subtract", "Multiply", "Divide"}
LogicKinds == {"And", "Or"}
ComparisonKinds == {"Lt", "Lte", "Gt", "Gte", "Eq", "Ne"}
BinaryKinds == ArithmeticKinds \cup LogicKinds \cup ComparisonKinds

\* --------------------------------------------------------------- programs

\* The inputs of run_stimpl: families of programs built from a few literals
\* of every type, two variable names and every kind of expression.

Names == {"x", "y"}

Lits ==
    {Ren, FloatingPointLiteral(0, 1), FloatingPointLiteral(1, 2),
     StringLiteral(<<>>), StringLiteral(<<97>>)}
        \cup {IntLiteral(n) : n \in 0..MaxLit}
        \cup {BooleanLiteral(b) : b \in BOOLEAN}

Few == {IntLiteral(0), IntLiteral(MaxLit), StringLiteral(<<97>>)}

Bools == {BooleanLiteral(b) : b \in BOOLEAN}

\* The sequences over S of length at most n.
RECURSIVE SeqsUpTo(_, _)
SeqsUpTo(S, n) ==
    IF n = 0 THEN {<<>>}
    ELSE LET shorter == SeqsUpTo(S, n - 1)
         IN  shorter \cup {Append(q, e) : q \in shorter, e \in S}

\* One operator applied to two literals.
BinaryPrograms == {Program(<<Binary(k, a, b)>>) : k \in BinaryKinds, a \in Lits, b \in Lits}

\* Not, Print, If and While over a literal, a variable or an unknown node.
UnaryPrograms ==
    UNION {{Program(<<a>>), Program(<<Not(a)>>), Program(<<PrintExpr(a)>>),
            Program(<<If(a, PrintExpr(IntLiteral(0)), PrintExpr(IntLiteral(MaxLit)))>>),
            Program(<<While(a, Ren)>>),
            Program(<<While(a, PrintExpr(a))>>),
            Program(<<While(a, Assign("x", a))>>)}
           : a \in Lits \cup {Variable("x"), Other}}

\* Assignments and reads of the two names, in every order.
AssignPrograms ==
    {Program(q) : q \in SeqsUpTo({Assign(n, a) : n \in Names, a \in Few}
                                    \cup {Variable(n) : n \in Names}, MaxSeq)}

\* A name bound twice, then a name bound once, then a read.
ShadowPrograms ==
    {Program(<<Assign(n, a), Assign(n, b), Assign(m, c), Variable(k)>>) :
        n \in Names, m \in Names, k \in Names, a \in Few, b \in Few, c \in Few}

\* An Assign whose value assigns too, and Assigns in an If branch or a While
\* body, after a first binding.
NestedPrograms ==
    UNION {{Program(<<Assign("x", a), Assign(n, Sequence(<<Assign(m, b), c>>)), Variable(n)>>),
            Program(<<Assign(n, Sequence(<<Assign(m, b), c>>)), Variable(m)>>),
            Program(<<Assign(n, Assign(m, b)), Assign(n, c), Variable(m)>>),
            Program(<<Assign("x", a),
                      If(Lt(Variable("x"), c), Assign(n, b), Assign(m, c)),
                      Variable("x")>>),
            Program(<<Assign("x", a), Assign("y", BooleanLiteral(TRUE)),
                      While(Variable("y"),
                            Sequence(<<Assign(n, b), Assign("y", BooleanLiteral(FALSE))>>)),
                      Variable(m)>>)}
           : n \in Names, m \in Names, a \in Few, b \in Few, c \in Few}

\* And / Or whose right operand binds or prints.
Effects ==
    {Assign("x", a) : a \in Lits} \cup {PrintExpr(a) : a \in Lits}
        \cup {Sequence(<<PrintExpr(a), Assign("y", a)>>) : a \in Bools}

LogicPrograms ==
    {Program(<<Binary(k, l, r), Variable("x")>>) :
        k \in LogicKinds,
        l \in Bools \cup {IntLiteral(0)} \cup {Assign("x", b) : b \in Bools},
        r \in Effects}

\* Expressions that raise, inside every kind of enclosing expression, with
\* a Print before and a Print and an Assign after.
Culprits ==
    {Variable("y"), Divide(IntLiteral(MaxLit), IntLiteral(0)),
     Add(IntLiteral(MaxLit), StringLiteral(<<97>>)), Other, Not(IntLiteral(0)),
     Assign("x", StringLiteral(<<>>)), IntLiteral(MaxLit)}

After == PrintExpr(BooleanLiteral(TRUE))

Enclose(e) ==
    {e, PrintExpr(e), Assign("y", e), Not(e), Sequence(<<e, After>>),
     If(e, After, After), If(BooleanLiteral(TRUE), e, After),
     If(BooleanLiteral(FALSE), After, e), While(e, After),
     While(Not(Lt(Variable("x"), IntLiteral(0))), e),
     And(e, After), Or(After, e), Lt(e, After), Add(After, e)}

ErrorPrograms ==
    {Program(<<Assign("x", IntLiteral(0)), PrintExpr(Variable("x")), d, After,
               Assign("x", IntLiteral(MaxLit))>>) :
        d \in UNION {UNION {Enclose(c) : c \in Enclose(e)} : e \in Culprits}}

\* i = 0; while i < k: i = i + 1; i
CounterLoop(k) ==
    Program(<<Assign("i", IntLiteral(0)),
              While(Lt(Variable("i"), IntLiteral(k)),
                    Assign("i", Add(Variable("i"), IntLiteral(1)))),
              Variable("i")>>)

\* Loops whose condition binds as well.
LoopPrograms ==
    {CounterLoop(k) : k \in 0..MaxLoop}
        \cup {Program(<<Assign("i", IntLiteral(0)),
                        While(Assign("y", Lt(Variable("i"), IntLiteral(k))), body),
                        Variable(n)>>) :
                k \in 0..MaxLit, n \in Names \cup {"i"},
                body \in {Assign("i", Add(Variable("i"), IntLiteral(1))),
                          Sequence(<<PrintExpr(Variable("i")),
                                     Assign("i", Add(Variable("i"), IntLiteral(1)))>>),
                          Sequence(<<Assign("i", Add(Variable("i"), IntLiteral(1))),
                                     Assign("x", Variable("y"))>>),
                          Sequence(<<>>)}}

\* Arithmetic and comparisons on computed operands (negative numbers, sums).
Numbers == {IntLiteral(0), IntLiteral(MaxLit), FloatingPointLiteral(1, 2)}

ArithmeticPrograms ==
    {Program(<<Binary(k, Binary(i, a, b), Binary(j, c, d))>>) :
        k \in ArithmeticKinds \cup {"Lt", "Eq"}, i \in {"Add", "Subtract"},
        j \in {"Add", "Subtract"},
        a \in Numbers, b \in Numbers, c \in Numbers, d \in Numbers}

Programs ==
    BinaryPrograms \cup ArithmeticPrograms \cup UnaryPrograms \cup AssignPrograms \cup ShadowPrograms
        \cup NestedPrograms
        \cup LogicPrograms \cup ErrorPrograms \cup LoopPrograms

\* ------------------------------------------------------------ the machine

VARIABLES
    program,     \* run_stimpl's argument
    pc,          \* "eval": evaluate is being called on `expression` in `state`;
                 \* "ret": that call has returned (ret, state); "raise": an
                 \* exception is propagating; "done" / "error": run_stimpl is over
    expression,  \* the argument of the current (or last) call of evaluate
    state,       \* the State passed to the current call, or returned by the last
    ret,         \* the (value, type) the last call returned
    exc,         \* the exception being propagated, "" if none
    stack,       \* the activations of evaluate waiting for a call, innermost first
    out,         \* the lines written to standard output
    result,      \* what run_stimpl returned
    assigned,    \* history: the bindings made by Assign so far, oldest first
    call,        \* history: the State the current (or last returned) call was
                 \*          given, and the number of bindings made before it
    steps        \* the number of steps evaluate has taken

vars == <<program, pc, expression, state, ret, exc, stack, out, result, assigned,
          call, steps>>

NoResult == [returned |-> FALSE, value |-> None, state |-> EmptyState]

\* An activation of evaluate: its expression, the call it waits for (`at`),
\* its locals (`state`, `currState`, the loop index `i`, the left operand's or
\* the last element's (value, type) `local`) and the number of bindings made
\* before it started (`mark`, history).
Frame(e, at, st, cur, i, local, mark) ==
    [expression |-> e, at |-> at, state |-> st, currState |-> cur, i |-> i,
     local |-> local, mark |-> mark]

NewFrame(at) ==
    Frame(expression, at, state, state, 0, Pair(NoneVal, "Unit"), Len(assigned))

\* The State an activation was given (While reassigns its parameter `state`
\* and keeps the original in currState).
EntryState(f) == IF f.expression.kind = "While" THEN f.currState ELSE f.state

Init ==
    /\ program \in Programs
    /\ pc = "eval"
    /\ expression = program
    /\ state = EmptyState
    /\ ret = None
    /\ exc = ""
    /\ stack = <<>>
    /\ out = <<>>
    /\ result = NoResult
    /\ assigned = <<>>
    /\ call = [state |-> EmptyState, mark |-> 0]
    /\ steps = 0

\* A step of evaluate; a run is cut after MaxSteps of them.
Step == steps < MaxSteps /\ steps' = steps + 1

Evaluating(kinds) == pc = "eval" /\ expression.kind \in kinds

\* The innermost activation is one of `kinds` and the call it made at `at`
\* has returned.
Returned(kinds, at) ==
    /\ pc = "ret"
    /\ stack # <<>>
    /\ Head(stack).expression.kind \in kinds
    /\ Head(stack).at = at

\* The current activation calls evaluate(e, st).
Call(e, st) ==
    /\ pc' = "eval"
    /\ expression' = e
    /\ state' = st
    /\ call' = [state |-> st, mark |-> Len(assigned)]
    /\ UNCHANGED <<program, ret, exc, out, result, assigned>>

\* A case without sub-expressions returns (v, t, state).
LeafReturn(v, t) ==
    /\ pc' = "ret"
    /\ ret' = Pair(v, t)
    /\ UNCHANGED <<program, expression, state, exc, stack, out, result, assigned, call>>

\* The innermost activation returns (v, t, st).
FrameReturn(v, t, st) ==
    /\ pc' = "ret"
    /\ ret' = Pair(v, t)
    /\ state' = st
    /\ expression' = Head(stack).expression
    /\ call' = [state |-> EntryState(Head(stack)), mark |-> Head(stack).mark]
    /\ stack' = Tail(stack)
    /\ UNCHANGED <<program, exc>>

\* The current call raises e.
Raise(e) ==
    /\ pc' = "raise"
    /\ exc' = e
    /\ expression' = IF pc = "eval" THEN expression ELSE Head(stack).expression
    /\ UNCHANGED <<program, state, ret, stack, out, result, assigned, call>>

\* case Ren()
EvalRen ==
    /\ Evaluating({"Ren"})
    /\ Step
    /\ LeafReturn(NoneVal, "Unit")

\* case IntLiteral(literal=l)
EvalIntLiteral ==
    /\ Evaluating({"IntLiteral"})
    /\ Step
    /\ LeafReturn(expression.literal, "Integer")

\* case FloatingPointLiteral(literal=l)
EvalFloatingPointLiteral ==
    /\ Evaluating({"FloatingPointLiteral"})
    /\ Step
    /\ LeafReturn(expression.literal, "FloatingPoint")

\* case StringLiteral(literal=l)
EvalStringLiteral ==
    /\ Evaluating({"StringLiteral"})
    /\ Step
    /\ LeafReturn(expression.literal, "String")

\* case BooleanLiteral(literal=l)
EvalBooleanLiteral ==
    /\ Evaluating({"BooleanLiteral"})
    /\ Step
    /\ LeafReturn(expression.literal, "Boolean")

\* case Print: evaluate(to_print, state)
EvalPrint ==
    /\ Evaluating({"Print"})
    /\ Step
    /\ stack' = <<NewFrame("to_print")>> \o stack
    /\ Call(expression.to_print, state)

\* The line print() writes for a value: "Unit" for the Unit type, else the
\* value's text, kept as the value it is the text of.
Line(v, t) ==
    IF t = "Unit" THEN [text |-> "Unit", of |-> NoneVal]
    ELSE [text |-> "str", of |-> v]

\* case Print, after the call: write the line, return what to_print returned.
PrintReturn ==
    /\ Returned({"Print"}, "to_print")
    /\ Step
    /\ out' = Append(out, Line(ret.val, ret.type))
    /\ FrameReturn(ret.val, ret.type, state)
    /\ UNCHANGED <<result, assigned>>

\* case Sequence(exprs=exprs) | Program(exprs=exprs): an empty list returns
\* (None, Unit(), state); otherwise the loop starts with the first element.
EvalSequence ==
    /\ Evaluating({"Sequence", "Program"})
    /\ Step
    /\ IF expression.exprs = <<>>
       THEN LeafReturn(NoneVal, "Unit")
       ELSE /\ stack' = <<[NewFrame("exprs") EXCEPT !.i = 1]>> \o stack
            /\ Call(expression.exprs[1], state)

\* case Sequence | Program, after an element's call: result, resultType and
\* currState are assigned; the next element is evaluated in currState, and
\* after the last one the three are returned.
SequenceNext ==
    /\ Returned({"Sequence", "Program"}, "exprs")
    /\ Step
    /\ LET f == Head(stack)
           g == [f EXCEPT !.local = ret, !.currState = state, !.i = f.i + 1]
       IN  IF f.i < Len(f.expression.exprs)
           THEN /\ stack' = <<g>> \o Tail(stack)
                /\ Call(f.expression.exprs[g.i], g.currState)
           ELSE /\ FrameReturn(g.local.val, g.local.type, g.currState)
                /\ UNCHANGED <<out, result, assigned>>

\* case Variable(variable_name=variable_name)
EvalVariable ==
    /\ Evaluating({"Variable"})
    /\ Step
    /\ LET value == get_value(state, expression.variable_name)
       IN  IF value = None
           THEN Raise("InterpSyntaxError")
           ELSE LeafReturn(value.val, value.type)

\* case Assign: evaluate(value, state)
EvalAssign ==
    /\ Evaluating({"Assign"})
    /\ Step
    /\ stack' = <<NewFrame("value")>> \o stack
    /\ Call(expression.value, state)

\* An Assign that binds without comparing the types.
AssignReturn_Unchecked ==
    /\ Returned({"Assign"}, "value")
    /\ Step
    /\ LET variable == Head(stack).expression.variable
       IN  /\ FrameReturn(ret.val, ret.type,
                  set_value(state, variable.variable_name, ret.val, ret.type))
           /\ assigned' = Append(assigned,
                  [variable_name |-> variable.variable_name, value |-> ret])
           /\ UNCHANGED <<out, result>>

\* An Assign that looks the variable up in the State it was given, not in the
\* one the value's evaluation returned.
AssignReturn_LookupBefore ==
    /\ Returned({"Assign"}, "value")
    /\ Step
    /\ LET variable == Head(stack).expression.variable
           new_state == state
           variable_from_state == get_value(Head(stack).state, variable.variable_name)
           variable_type == IF variable_from_state # None
                            THEN variable_from_state.type ELSE "None"
       IN  IF ret.type # variable_type /\ variable_type # "None"
           THEN Raise("InterpTypeError")
           ELSE /\ FrameReturn(ret.val, ret.type,
                       set_value(new_state, variable.variable_name, ret.val, ret.type))
                /\ assigned' = Append(assigned,
                       [variable_name |-> variable.variable_name, value |-> ret])
                /\ UNCHANGED <<out, result>>

\* case Assign, after the call: the variable is looked up in new_state; a
\* binding of another type raises, otherwise new_state gets a new head.
AssignReturn ==
    /\ Returned({"Assign"}, "value")
    /\ Step
    /\ LET variable == Head(stack).expression.variable
           new_state == state
           variable_from_state == get_value(new_state, variable.variable_name)
           variable_type == IF variable_from_state # None
                            THEN variable_from_state.type ELSE "None"
       IN  IF ret.type # variable_type /\ variable_type # "None"
           THEN Raise("InterpTypeError")
           ELSE /\ FrameReturn(ret.val, ret.type,
                       set_value(new_state, variable.variable_name, ret.val, ret.type))
                /\ assigned' = Append(assigned,
                       [variable_name |-> variable.variable_name, value |-> ret])
                /\ UNCHANGED <<out, result>>

\* What the code after the operand calls does: return (val, type) or raise.
Ok(v, t) == [exc |-> "", val |-> v, type |-> t]
Err(e) == [exc |-> e, val |-> NoneVal, type |-> "None"]

Ordered == {"Integer", "Boolean", "String", "FloatingPoint"}

\* case Add
AddCase(l, r) ==
    IF l.type # r.type THEN Err("InterpTypeError")
    ELSE IF l.type \in {"Integer", "String", "FloatingPoint"}
    THEN Ok(PyAdd(l.val, r.val), l.type)
    ELSE Err("InterpTypeError")

\* case Subtract
SubtractCase(l, r) ==
    IF l.type # r.type THEN Err("InterpTypeError")
    ELSE IF l.type \in {"Integer", "FloatingPoint"}
    THEN Ok(PySub(l.val, r.val), l.type)
    ELSE Err("InterpTypeError")

\* case Multiply
MultiplyCase(l, r) ==
    IF l.type # r.type THEN Err("InterpTypeError")
    ELSE IF l.type \in {"Integer", "FloatingPoint"}
    THEN Ok(PyMul(l.val, r.val), l.type)
    ELSE Err("InterpTypeError")

\* A Divide that looks at the divisor only after the match on the type.
DivideCase_MatchFirst(l, r) ==
    IF l.type # r.type THEN Err("InterpTypeError")
    ELSE IF l.type \notin {"Integer", "FloatingPoint"} THEN Err("InterpTypeError")
    ELSE IF PyEqualsZero(r.val) THEN Err("InterpMathError")
    ELSE IF l.type = "Integer" THEN Ok(PyFloorDiv(l.val, r.val), l.type)
    ELSE Ok(PyTrueDiv(l.val, r.val), l.type)

\* case Divide: the type comparison, then rightResult == 0, then the match.
DivideCase(l, r) ==
    IF l.type # r.type THEN Err("InterpTypeError")
    ELSE IF PyEqualsZero(r.val) THEN Err("InterpMathError")
    ELSE IF l.type = "Integer" THEN Ok(PyFloorDiv(l.val, r.val), l.type)
    ELSE IF l.type = "FloatingPoint" THEN Ok(PyTrueDiv(l.val, r.val), l.type)
    ELSE Err("InterpTypeError")

\* case And: left_value and right_value
AndCase(l, r) ==
    IF l.type # r.type THEN Err("InterpTypeError")
    ELSE IF l.type = "Boolean"
    THEN Ok(IF Truthy(l.val) THEN r.val ELSE l.val, l.type)
    ELSE Err("InterpTypeError")

\* case Or: leftResult or rightResult
OrCase(l, r) ==
    IF l.type # r.type THEN Err("InterpTypeError")
    ELSE IF l.type = "Boolean"
    THEN Ok(IF Truthy(l.val) THEN l.val ELSE r.val, l.type)
    ELSE Err("InterpTypeError")

\* case Lt
LtCase(l, r) ==
    IF l.type # r.type THEN Err("InterpTypeError")
    ELSE IF l.type \in Ordered THEN Ok(BoolVal(PyLess(l.val, r.val)), "Boolean")
    ELSE IF l.type = "Unit" THEN Ok(BoolVal(FALSE), "Boolean")
    ELSE Err("InterpTypeError")

\* case Lte
LteCase(l, r) ==
    IF l.type # r.type THEN Err("InterpTypeError")
    ELSE IF l.type \in Ordered
    THEN Ok(BoolVal(PyLess(l.val, r.val) \/ PyEqual(l.val, r.val)), "Boolean")
    ELSE IF l.type = "Unit" THEN Ok(BoolVal(r.type = "Unit"), "Boolean")
    ELSE Err("InterpTypeError")

\* case Gt
GtCase(l, r) ==
    IF l.type # r.type THEN Err("InterpTypeError")
    ELSE IF l.type \in Ordered THEN Ok(BoolVal(PyLess(r.val, l.val)), "Boolean")
    ELSE IF l.type = "Unit" THEN Ok(BoolVal(FALSE), "Boolean")
    ELSE Err("InterpTypeError")

\* case Gte
GteCase(l, r) ==
    IF l.type # r.type THEN Err("InterpTypeError")
    ELSE IF l.type \in Ordered
    THEN Ok(BoolVal(PyLess(r.val, l.val) \/ PyEqual(l.val, r.val)), "Boolean")
    ELSE IF l.type = "Unit" THEN Ok(BoolVal(r.type = "Unit"), "Boolean")
    ELSE Err("InterpTypeError")

\* case Eq
EqCase(l, r) ==
    IF l.type # r.type THEN Err("InterpTypeError")
    ELSE IF l.type \in Ordered THEN Ok(BoolVal(PyEqual(l.val, r.val)), "Boolean")
    ELSE IF l.type = "Unit" THEN Ok(BoolVal(r.type = "Unit"), "Boolean")
    ELSE Err("InterpTypeError")

\* A Ne that answers Unit against anything without comparing the types.
NeCase_UnitFirst(l, r) ==
    IF l.type = "Unit" THEN Ok(BoolVal(r.type # "Unit"), "Boolean")
    ELSE IF l.type # r.type THEN Err("InterpTypeError")
    ELSE Ok(BoolVal(~PyEqual(l.val, r.val)), "Boolean")

\* case Ne
NeCase(l, r) ==
    IF l.type # r.type THEN Err("InterpTypeError")
    ELSE IF l.type \in Ordered THEN Ok(BoolVal(~PyEqual(l.val, r.val)), "Boolean")
    ELSE IF l.type = "Unit" THEN Ok(BoolVal(r.type # "Unit"), "Boolean")
    ELSE Err("InterpTypeError")

\* The dispatch of match expression over the binary cases.
BinaryCase(kind, l, r) ==
    CASE kind = "Add" -> AddCase(l, r)
      [] kind = "Subtract" -> SubtractCase(l, r)
      [] kind = "Multiply" -> MultiplyCase(l, r)
      [] kind = "Divide" -> DivideCase(l, r)
      [] kind = "And" -> AndCase(l, r)
      [] kind = "Or" -> OrCase(l, r)
      [] kind = "Lt" -> LtCase(l, r)
      [] kind = "Lte" -> LteCase(l, r)
      [] kind = "Gt" -> GtCase(l, r)
      [] kind = "Gte" -> GteCase(l, r)
      [] kind = "Eq" -> EqCase(l, r)
      [] kind = "Ne" -> NeCase(l, r)

\* Every binary case starts with evaluate(left, state).
EvalBinary ==
    /\ Evaluating(BinaryKinds)
    /\ Step
    /\ stack' = <<NewFrame("left")>> \o stack
    /\ Call(expression.left, state)

\* And / Or that skip the right operand when the left one decides.
BinaryRight_ShortCircuit ==
    /\ Returned(BinaryKinds, "left")
    /\ Step
    /\ stack' = <<[Head(stack) EXCEPT !.local = ret, !.at = "right"]>> \o Tail(stack)
    /\ LET kind == Head(stack).expression.kind
           decided == /\ ret.type = "Boolean"
                      /\ \/ kind = "And" /\ ~Truthy(ret.val)
                         \/ kind = "Or" /\ Truthy(ret.val)
       IN  IF decided
           THEN UNCHANGED <<program, pc, expression, state, ret, exc, out, result,
                            assigned, call>>
           ELSE Call(Head(stack).expression.right, state)

\* ... and goes on with evaluate(right, new_state), whatever left returned.
BinaryRight ==
    /\ Returned(BinaryKinds, "left")
    /\ Step
    /\ stack' = <<[Head(stack) EXCEPT !.local = ret, !.at = "right"]>> \o Tail(stack)
    /\ Call(Head(stack).expression.right, state)

\* After both calls the case checks the types, computes and returns
\* (result, type, new_state), or raises.
BinaryReturn ==
    /\ Returned(BinaryKinds, "right")
    /\ Step
    /\ LET f == Head(stack)
           o == BinaryCase(f.expression.kind, f.local, ret)
       IN  IF o.exc # ""
           THEN Raise(o.exc)
           ELSE /\ FrameReturn(o.val, o.type, state)
                /\ UNCHANGED <<out, result, assigned>>

\* case Not: evaluate(expr, state)
EvalNot ==
    /\ Evaluating({"Not"})
    /\ Step
    /\ stack' = <<NewFrame("expr")>> \o stack
    /\ Call(expression.expr, state)

\* case Not, after the call.
NotReturn ==
    /\ Returned({"Not"}, "expr")
    /\ Step
    /\ IF ret.type = "Boolean"
       THEN /\ FrameReturn(BoolVal(~Truthy(ret.val)), ret.type, state)
            /\ UNCHANGED <<out, result, assigned>>
       ELSE Raise("InterpTypeError")

\* case If: evaluate(condition, state)
EvalIf ==
    /\ Evaluating({"If"})
    /\ Step
    /\ stack' = <<NewFrame("condition")>> \o stack
    /\ Call(expression.condition, state)

\* case If, after the condition: one branch is evaluated in newState.
IfBranch ==
    /\ Returned({"If"}, "condition")
    /\ Step
    /\ LET f == Head(stack)
           tempRes == PyEqual(ret.val, BoolVal(TRUE))
       IN  IF ret.type = "Boolean"
           THEN /\ stack' = <<[f EXCEPT !.at = "branch"]>> \o Tail(stack)
                /\ Call(IF tempRes THEN f.expression.true ELSE f.expression.false, state)
           ELSE Raise("InterpTypeError")

\* case If, after the branch.
IfReturn ==
    /\ Returned({"If"}, "branch")
    /\ Step
    /\ FrameReturn(ret.val, ret.type, state)
    /\ UNCHANGED <<out, result, assigned>>

\* case While: currState = state, then evaluate(condition, state).
EvalWhile ==
    /\ Evaluating({"While"})
    /\ Step
    /\ stack' = <<NewFrame("condition")>> \o stack
    /\ Call(expression.condition, state)

\* A While that returns what the body returned last.
WhileCondition_BodyValue ==
    /\ Returned({"While"}, "condition")
    /\ Step
    /\ LET f == [Head(stack) EXCEPT !.state = state]
       IN  IF ret.type = "Boolean"
           THEN IF Truthy(ret.val)
                THEN /\ stack' = <<[f EXCEPT !.at = "body"]>> \o Tail(stack)
                     /\ Call(f.expression.body, f.state)
                ELSE /\ FrameReturn(f.local.val, f.local.type, f.state)
                     /\ UNCHANGED <<out, result, assigned>>
           ELSE Raise("InterpTypeError")

\* case While, after the condition: `state` is assigned what the call
\* returned; a true Boolean evaluates the body in it, a false one returns
\* (condResult, condType, state), any other type raises.
WhileCondition ==
    /\ Returned({"While"}, "condition")
    /\ Step
    /\ LET f == [Head(stack) EXCEPT !.state = state]
       IN  IF ret.type = "Boolean"
           THEN IF Truthy(ret.val)
                THEN /\ stack' = <<[f EXCEPT !.at = "body"]>> \o Tail(stack)
                     /\ Call(f.expression.body, f.state)
                ELSE /\ FrameReturn(ret.val, ret.type, f.state)
                     /\ UNCHANGED <<out, result, assigned>>
           ELSE Raise("InterpTypeError")

\* A While that checks the condition in the State captured before the loop.
WhileBody_CapturedState ==
    /\ Returned({"While"}, "body")
    /\ Step
    /\ LET f == [Head(stack) EXCEPT !.local = ret, !.state = state]
       IN  /\ stack' = <<[f EXCEPT !.at = "condition"]>> \o Tail(stack)
           /\ Call(f.expression.condition, f.currState)

\* case While, after the body: condResult, condType and `state` are assigned
\* what the body returned and the loop evaluates the condition again, in that
\* state.
WhileBody ==
    /\ Returned({"While"}, "body")
    /\ Step
    /\ LET f == [Head(stack) EXCEPT !.local = ret, !.state = state]
       IN  /\ stack' = <<[f EXCEPT !.at = "condition"]>> \o Tail(stack)
           /\ Call(f.expression.condition, f.state)

Handled ==
    {"Ren", "IntLiteral", "FloatingPointLiteral", "StringLiteral", "BooleanLiteral",
     "Print", "Sequence", "Program", "Variable", "Assign", "Not", "If", "While"}
        \cup BinaryKinds

\* case _
Unhandled ==
    /\ pc = "eval"
    /\ expression.kind \notin Handled
    /\ Step
    /\ Raise("InterpSyntaxError")

\* A Sequence / Program that goes on with its next element after an exception.
Unwind_SequenceResumes ==
    /\ pc = "raise"
    /\ stack # <<>>
    /\ IF Head(stack).expression.kind \in {"Sequence", "Program"}
       THEN /\ pc' = "ret"
            /\ ret' = Pair(NoneVal, "Unit")
            /\ exc' = ""
            /\ UNCHANGED <<program, expression, state, stack, out, result, assigned,
                           call, steps>>
       ELSE /\ stack' = Tail(stack)
            /\ UNCHANGED <<program, pc, expression, state, ret, exc, out, result,
                           assigned, call, steps>>

\* No case of evaluate catches: an exception leaves the innermost activation.
Unwind ==
    /\ pc = "raise"
    /\ stack # <<>>
    /\ stack' = Tail(stack)
    /\ UNCHANGED <<program, pc, expression, state, ret, exc, out, result, assigned, call,
                   steps>>

\* run_stimpl does not catch either: the exception reaches its caller.
RunStimplRaise ==
    /\ pc = "raise"
    /\ stack = <<>>
    /\ pc' = "error"
    /\ UNCHANGED <<program, expression, state, ret, exc, stack, out, result, assigned, call,
                   steps>>

\* run_stimpl, after evaluate(program, EmptyState()) returned: with debug it
\* prints the program, the final value and the final state, and it returns
\* the three values.
RunStimplReturn ==
    /\ pc = "ret"
    /\ stack = <<>>
    /\ pc' = "done"
    /\ result' = [returned |-> TRUE, value |-> ret, state |-> state]
    /\ \E debug \in BOOLEAN :
          out' = IF debug
                 THEN out \o <<[text |-> "program: ", of |-> NoneVal],
                                [text |-> "final_value: ", of |-> ret.val],
                                [text |-> "final_state: ", of |-> NoneVal]>>
                 ELSE out
    /\ UNCHANGED <<program, expression, state, ret, exc, stack, assigned, call, steps>>

Next ==
    \/ EvalRen
    \/ EvalIntLiteral
    \/ EvalFloatingPointLiteral
    \/ EvalStringLiteral
    \/ EvalBooleanLiteral
    \/ EvalPrint
    \/ PrintReturn
    \/ EvalSequence
    \/ SequenceNext
    \/ EvalVariable
    \/ EvalAssign
    \/ AssignReturn
    \/ EvalBinary
    \/ BinaryRight
    \/ BinaryReturn
    \/ EvalNot
    \/ NotReturn
    \/ EvalIf
    \/ IfBranch
    \/ IfReturn
    \/ EvalWhile
    \/ WhileCondition
    \/ WhileBody
    \/ Unhandled
    \/ Unwind
    \/ RunStimplRaise
    \/ RunStimplReturn

Spec == Init /\ [][Next]_vars

\* The runs in which every step that can be taken is taken: the interpreter
\* is one sequential process that nothing suspends.
FairSpec == Spec /\ WF_vars(Next)

\* ------------------------------------------------------------------ claims

\* The top-level value run_stimpl returned.
Final == result.value

\* The step after a While's body has returned, and the result of the
\* counting loops.
C1_ConditionAfterBody ==
    Returned({"While"}, "body") =>
        /\ pc' = "eval"
        /\ expression' = Head(stack).expression.condition
        /\ state' = state

C1_CounterLoopResult ==
    \A k \in 0..MaxLoop :
        (program = CounterLoop(k) /\ pc = "done") =>
            /\ Final = Pair(IntVal(k), "Integer")
            /\ get_value(result.state, "i") = Pair(IntVal(k), "Integer")

\* C1: While threads the environment.  Whenever a While's body has
\* returned, the next step evaluates the loop's condition in the State the
\* body returned (not in the State captured before the loop), and the counting
\* loop  i = 0; while i < k: i = i + 1; i  ends with the value k of type
\* Integer, for every k up to MaxLoop, and it does end.
C1_WhileThreadsState ==
    /\ []C1_CounterLoopResult
    /\ [][C1_ConditionAfterBody]_vars
    /\ \A k \in 0..MaxLoop : (program = CounterLoop(k)) ~> (pc = "done")

\* The counting loop to MaxLoop has ended with that value, in a State that
\* holds the binding of every iteration.
C1_Witness ==
    /\ program = CounterLoop(MaxLoop)
    /\ pc = "done"
    /\ Final = Pair(IntVal(MaxLoop), "Integer")
    /\ Len(result.state) = MaxLoop + 1

\* The exception e is raised by the step.
Raising(e) == pc' = "raise" /\ exc' = e

\* C2, as claimed: whenever the divisor of a Divide has evaluated to zero
\* (Integer 0 or FloatingPoint 0.0), MathError is raised, whatever the type
\* of the dividend.
C2_Original ==
    [][(/\ Returned({"Divide"}, "right")
        /\ ret.type \in {"Integer", "FloatingPoint"}
        /\ PyEqualsZero(ret.val))
       => Raising("InterpMathError")]_vars

\* C2, amended: when both operands of a Divide have the same runtime type
\* and the divisor's value equals zero (0, 0.0, and false, which the host
\* compares equal to 0), MathError is raised; when the types of the operands
\* differ, TypeError is raised, zero divisor or not.
C2_DivideByZero ==
    [][Returned({"Divide"}, "right") =>
        /\ (Head(stack).local.type = ret.type /\ PyEqualsZero(ret.val))
              => Raising("InterpMathError")
        /\ Head(stack).local.type # ret.type => Raising("InterpTypeError")]_vars

\* Divide has raised MathError for two Booleans, the divisor being false.
C2_Witness ==
    /\ pc = "raise"
    /\ exc = "InterpMathError"
    /\ stack # <<>>
    /\ Head(stack).expression.kind = "Divide"
    /\ Head(stack).at = "right"
    /\ Head(stack).local.type = "Boolean"
    /\ ret = Pair(BoolVal(FALSE), "Boolean")

\* The types of the bindings of a name in a State.
TypesOf(st, name) ==
    {st[i].value.type : i \in {j \in DOMAIN st : st[j].variable_name = name}}

\* The two steps of an Assign.
C3_AssignStep ==
    /\ Evaluating({"Assign"}) =>
          /\ pc' = "eval"
          /\ expression' = expression.value
          /\ state' = state
    /\ Returned({"Assign"}, "value") =>
          LET name == Head(stack).expression.variable.variable_name
          IN  IF TypesOf(state, name) \ {ret.type} # {}
              THEN /\ Raising("InterpTypeError")
                   /\ state' = state
                   /\ assigned' = assigned
              ELSE /\ pc' = "ret"
                   /\ ret' = ret
                   /\ state' = <<[variable_name |-> name, value |-> ret]>> \o state
                   /\ expression' = Head(stack).expression

\* C3: Assign evaluates its value expression first, in the State it was
\* given.  After that, if the variable is bound with a type other than the
\* value's, TypeError is raised and no binding is added; otherwise exactly
\* one binding (variable, value, type) is added at the head and the value and
\* its type are returned.
C3_Assign == [][C3_AssignStep]_vars

\* An Assign has returned after binding, with a new value, a variable that
\* was bound with the same type.
C3_Witness ==
    /\ pc = "ret"
    /\ expression.kind = "Assign"
    /\ Len(state) >= 2
    /\ state[1].variable_name = expression.variable.variable_name
    /\ state[2].variable_name = state[1].variable_name
    /\ state[2].value.type = state[1].value.type
    /\ state[2].value.val # state[1].value.val
    /\ ret = state[1].value

\* The (value, type) of the last successful Assign to a name, None if there
\* was none.
LastAssigned(name) ==
    LET made == {i \in DOMAIN assigned : assigned[i].variable_name = name}
    IN  IF made = {} THEN None
        ELSE assigned[CHOOSE i \in made : \A j \in made : j <= i].value

\* The step of a Variable.
C4_VariableStep ==
    Evaluating({"Variable"}) =>
        LET last == LastAssigned(expression.variable_name)
        IN  IF last = None
            THEN Raising("InterpSyntaxError")
            ELSE pc' = "ret" /\ ret' = last /\ state' = state

\* C4: evaluating Variable(name) returns the value and the type of the most
\* recent successful Assign to that name and leaves the State as it is; when
\* there was no Assign to the name it raises SyntaxError.
C4_Variable == [][C4_VariableStep]_vars

\* A Variable has been read whose binding lies under a binding of another
\* name and over an older binding, with another value, of its own name.
C4_Witness ==
    /\ pc = "ret"
    /\ expression.kind = "Variable"
    /\ Len(state) >= 3
    /\ state[1].variable_name # expression.variable_name
    /\ state[2].variable_name = expression.variable_name
    /\ state[3].variable_name = expression.variable_name
    /\ state[3].value # state[2].value
    /\ ret = state[2].value

\* The step after the left operand of And / Or, and the State and output
\* after the right one.
C5_RightAfterLeft ==
    Returned(LogicKinds, "left") =>
        /\ pc' = "eval"
        /\ expression' = Head(stack).expression.right
        /\ state' = state

C5_RightEffects ==
    Returned(LogicKinds, "right") =>
        LET right == Head(stack).expression.right
        IN  /\ right.kind = "Assign" =>
                  /\ state # <<>>
                  /\ Head(state) = [variable_name |-> right.variable.variable_name,
                                    value |-> ret]
            /\ right.kind = "Print" =>
                  /\ out # <<>>
                  /\ out[Len(out)] = Line(ret.val, ret.type)

\* C5: And and Or never short-circuit.  When the left operand has returned,
\* whatever its value, the next step evaluates the right operand in the State
\* the left one returned; and when the right operand has returned, its own
\* binding (if it is an Assign) is the head of the State and its own line
\* (if it is a Print) is the last line of the output.
C5_NoShortCircuit == []C5_RightEffects /\ [][C5_RightAfterLeft]_vars

\* The right operand of an And whose left operand is false has bound x.
C5_Witness ==
    /\ Returned({"And"}, "right")
    /\ Head(stack).local = Pair(BoolVal(FALSE), "Boolean")
    /\ Head(stack).expression.right.kind = "Assign"
    /\ Head(stack).state = <<>>
    /\ Len(state) = 1
    /\ state[1].variable_name = "x"

\* The step of a comparison after both operands.
C6_ComparisonStep ==
    Returned(ComparisonKinds, "right") =>
        LET left == Head(stack).local
            kind == Head(stack).expression.kind
        IN  /\ left.type # ret.type => Raising("InterpTypeError")
            /\ (left.type = "Unit" /\ ret.type = "Unit") =>
                  /\ pc' = "ret"
                  /\ ret' = Pair(BoolVal(kind \in {"Eq", "Lte", "Gte"}), "Boolean")

\* C6: a comparison (Lt, Lte, Gt, Gte, Eq, Ne) of operands whose runtime
\* types differ raises TypeError, Unit against a non-Unit included; Unit
\* against Unit returns the Boolean true for Eq, Lte, Gte and false for Ne,
\* Lt, Gt.
C6_Comparisons == [][C6_ComparisonStep]_vars

\* Ne of Unit against an Integer has raised TypeError.
C6_Witness ==
    /\ pc = "raise"
    /\ exc = "InterpTypeError"
    /\ stack # <<>>
    /\ Head(stack).expression.kind = "Ne"
    /\ Head(stack).at = "right"
    /\ Head(stack).local.type = "Unit"
    /\ ret.type = "Integer"

\* The step after a While's condition, and what a While has returned.
C7_ConditionStep ==
    Returned({"While"}, "condition") =>
        /\ ret.type # "Boolean" => Raising("InterpTypeError")
        /\ ret = Pair(BoolVal(FALSE), "Boolean") =>
              /\ pc' = "ret"
              /\ expression' = Head(stack).expression
              /\ ret' = ret
              /\ state' = state

C7_Returned ==
    (pc = "ret" /\ expression.kind = "While") => ret = Pair(BoolVal(FALSE), "Boolean")

\* C7: a While whose condition has evaluated to a non-Boolean raises
\* TypeError; one whose condition has evaluated to false returns that
\* (false, Boolean), not the body's value, with the State that evaluation of
\* the condition returned; and a While never returns anything else.
C7_WhileResult == []C7_Returned /\ [][C7_ConditionStep]_vars

\* A While has returned false after its body returned an Integer and its last
\* condition added a binding.
C7_Witness ==
    /\ pc = "ret"
    /\ expression.kind = "While"
    /\ expression.condition.kind = "Assign"
    /\ expression.body.kind = "Assign"
    /\ ret = Pair(BoolVal(FALSE), "Boolean")
    /\ Len(state) = 4
    /\ state[1] = [variable_name |-> "y", value |-> ret]

\* A step while an exception propagates, and the state it propagates in.
C8_Propagating ==
    pc \in {"raise", "error"} =>
        /\ pc' \in {"raise", "error"}
        /\ exc' = exc
        /\ out' = out
        /\ state' = state
        /\ assigned' = assigned
        /\ result' = result

C8_NoResult == pc \in {"raise", "error"} => (result = NoResult /\ exc # "")

\* C8: an exception raised anywhere ends the program.  While it propagates
\* nothing is evaluated: no binding, no output, no result, and it stays the
\* same exception; run_stimpl ends with it and without a result; and once
\* raised it does reach run_stimpl's caller.
C8_ErrorsAbort ==
    /\ []C8_NoResult
    /\ [][C8_Propagating]_vars
    /\ (pc = "raise") ~> (pc = "error")

\* A division by zero inside a loop body inside a Program has ended the run
\* after one line and one binding; the Print and the Assign after it never
\* happened.
C8_Witness ==
    /\ pc = "error"
    /\ exc = "InterpMathError"
    /\ Len(program.exprs) >= 3
    /\ program.exprs[3].kind = "While"
    /\ Len(out) = 1
    /\ Len(state) = 1
    /\ result = NoResult

\* The bindings made since the first n Assigns, newest first.
RECURSIVE Since(_)
Since(n) ==
    IF n >= Len(assigned) THEN <<>>
    ELSE Append(Since(n + 1), assigned[n + 1])

\* What a step does to the State, and the State a call has returned.
C9_StateStep ==
    \/ state' = state
    \/ /\ Returned({"Assign"}, "value")
       /\ state' =
             <<[variable_name |-> Head(stack).expression.variable.variable_name,
                value |-> ret]>> \o state

C9_Returned ==
    pc = "ret" =>
        /\ state = Since(call.mark) \o call.state
        /\ (\/ expression.kind \in {"Ren", "IntLiteral", "FloatingPointLiteral",
                                    "StringLiteral", "BooleanLiteral", "Variable"}
            \/ /\ expression.kind \in {"Sequence", "Program"}
               /\ expression.exprs = <<>>)
              => state = call.state

\* C9: the State changes only by an Assign adding a head binding.  Every
\* step leaves the State as it is or is the return of an Assign that puts its
\* binding on top of it; and when a call of evaluate has returned, the State
\* it returned is the State it was given with, on top, the bindings of the
\* Assigns made during the call, newest first.  So a literal, a Variable and
\* an empty Sequence or Program return the State they were given.
C9_StateGrows == []C9_Returned /\ [][C9_StateStep]_vars

\* A While that was given a State with a binding has returned it with two
\* more bindings of that name on top.
C9_Witness ==
    /\ pc = "ret"
    /\ expression.kind = "While"
    /\ Len(call.state) = 1
    /\ Len(state) = 3
    /\ state[1].variable_name = state[3].variable_name
    /\ state[2].variable_name = state[3].variable_name

\* C10: in every State the bindings of one name all have the same runtime
\* type.
C10_TypeStable ==
    \A i \in DOMAIN state : \A j \in DOMAIN state :
        state[i].variable_name = state[j].variable_name
            => state[i].value.type = state[j].value.type

\* An Assign to a variable that had no binding when the Assign started has
\* raised TypeError: its value expression bound the variable with another
\* type.
C10_Witness ==
    /\ pc = "raise"
    /\ exc = "InterpTypeError"
    /\ stack # <<>>
    /\ Head(stack).expression.kind = "Assign"
    /\ Head(stack).at = "value"
    /\ TypesOf(Head(stack).state, Head(stack).expression.variable.variable_name) = {}
    /\ TypesOf(state, Head(stack).expression.variable.variable_name) = {"String"}
    /\ ret.type = "Integer"

====
